---------------------------- MODULE Spec2Model ----------------------------
(***************************************************************************)
(* A model of the Ecosystem API proxy (src/main.py): the two aggregation   *)
(* handlers get_train_routes and get_car_routes.  Each handler is a        *)
(* sequential loop over the routes of one request; every upstream HTTP     *)
(* call is one step whose response is chosen by the environment.           *)
(*                                                                         *)
(* Strings that the code scans character by character (instruction texts,  *)
(* distance texts) are sequences of one-character strings.  Python's None  *)
(* is the string "None".  A Python f-string is the tuple of its parts.     *)
(* The mapping of a trip's legs (lines 226-242) is not modelled: a trip is *)
(* carried by its plannedDurationInMinutes.                                *)
(***************************************************************************)
EXTENDS Integers, Sequences, FiniteSets, TLC

VARIABLES
    request,            \* the request body being served (RouteRequest / CarRouteRequest)
    pc,                 \* position of the handler: idle, trips, disruptions, matrix, directions, done
    i,                  \* 1-based position of the for loop over the routes
    calls,              \* every upstream call issued so far, with the response it got
    result,             \* what the handler returned or raised
    route_responses,    \* get_train_routes: the list being built
    transformed_trips,  \* get_train_routes: trips of the route in progress
    disruptions,        \* get_train_routes: disruptions of the route in progress
    station_codes,      \* get_train_routes: station codes of the route in progress
    sc,                 \* get_train_routes: 1-based position in station_codes
    current_routes,     \* get_car_routes: the routes after the reversal
    trip_responses,     \* get_car_routes: the list being built
    element             \* get_car_routes: rows[0].elements[0] of the distance matrix

vars == <<request, pc, i, calls, result, route_responses, transformed_trips,
          disruptions, station_codes, sc, current_routes, trip_responses, element>>

railVars == <<route_responses, transformed_trips, disruptions, station_codes, sc>>
carVars == <<current_routes, trip_responses, element>>

(***************************************************************************)
(* Bounds of the model.                                                    *)
(***************************************************************************)
MaxRoutes == 2          \* routes per batch
MaxTrips == 3           \* trips in one upstream trip-search answer
MaxJourneys == 2        \* largest max_journeys tried besides the default
MaxDisruptions == 2     \* disruptions in one upstream station answer
MaxSeconds == 15        \* largest duration value (seconds) of a matrix element
MaxSteps == 4           \* steps of the first leg of a directions answer

DefaultMaxJourneys == 5 \* RouteRequest.max_journeys
FuelPricePer100Km == 12 \* fuel_price_per_100km
MaxRoadNames == 3       \* len(road_names) >= 3: break

None == "None"

Min(a, b) == IF a < b THEN a ELSE b
Max(a, b) == IF a > b THEN a ELSE b

\* All sequences over S of length at most n.
SeqsUpTo(S, n) == UNION {[1..k -> S] : k \in 0..n}

(***************************************************************************)
(* What a handler returns or raises.                                       *)
(***************************************************************************)
NoResult == [exc |-> "pending", status_code |-> 0, detail |-> <<>>, body |-> <<>>]

\* return <list>: FastAPI answers 200 with the list as body.
Return(list) == [exc |-> None, status_code |-> 200, detail |-> <<>>, body |-> list]

\* raise HTTPException(status_code=..., detail=f"{operation}: {text}")
HTTPException(status_code, operation, text) ==
    [exc |-> "HTTPException", status_code |-> status_code,
     detail |-> <<operation, ": ", text>>, body |-> <<>>]

\* An exception no except clause of the handler catches: it leaves the handler
\* as it is (the framework answers 500 without a detail).
Unhandled(name) == [exc |-> name, status_code |-> 500, detail |-> <<>>, body |-> <<>>]

(***************************************************************************)
(* Upstream responses.  status 0: requests.get raised a RequestException   *)
(* (no response); otherwise the HTTP status of the response.               *)
(***************************************************************************)
NoData == [absent |-> TRUE]
TransportError == [status |-> 0, error |-> "ConnectionError", data |-> NoData]
HttpError(status) == [status |-> status, error |-> "HTTPError", data |-> NoData]
HttpOk(data) == [status |-> 200, error |-> None, data |-> data]

\* requests.Response.ok
Ok(resp) == resp.status >= 200 /\ resp.status < 400

Call(api, route, args, resp) ==
    [api |-> api, route |-> route, args |-> args, status |-> resp.status,
     error |-> resp.error, data |-> resp.data]

(***************************************************************************)
(* get_train_routes                                                        *)
(***************************************************************************)
\* The truth value of an Optional[str]: None and "" are false.
Truthy(code) == code # None /\ code # ""

actual_from_station(route, is_reversed) ==
    IF is_reversed THEN route.toStation ELSE route.fromStation
actual_to_station(route, is_reversed) ==
    IF is_reversed THEN route.fromStation ELSE route.toStation
\* Slip: the names are swapped, the origin's code is not.
actual_from_station_code_Unswapped(route, is_reversed) == route.fromStationCode

actual_from_station_code(route, is_reversed) ==
    IF is_reversed THEN route.toStationCode ELSE route.fromStationCode
actual_to_station_code(route, is_reversed) ==
    IF is_reversed THEN route.fromStationCode ELSE route.toStationCode

route_key(route, is_reversed) ==
    <<actual_from_station(route, is_reversed), "-", actual_to_station(route, is_reversed)>>

\* [code for code in [from_code, to_code] if code]
StationCodes(route, is_reversed) ==
    SelectSeq(<<actual_from_station_code(route, is_reversed),
                actual_to_station_code(route, is_reversed)>>, Truthy)

\* seq[:n] of Python: a negative n counts from the end.
PySlice(seq, n) ==
    IF n >= 0 THEN SubSeq(seq, 1, Min(n, Len(seq)))
              ELSE SubSeq(seq, 1, Max(Len(seq) + n, 0))

\* Lines 223-253: enumerate(trips_data["trips"][:max_journeys]).
TransformTrips(trips_data, max_journeys) ==
    IF trips_data.has_trips /\ trips_data.trips # <<>>
    THEN LET cut == PySlice(trips_data.trips, max_journeys)
         IN  [k \in 1..Len(cut) |->
                 [idx |-> k - 1,
                  plannedDurationInMinutes |-> cut[k].plannedDurationInMinutes]]
    ELSE <<>>

\* Slip: a disruption without the flag counts as active.
IsActive_UnlessFalse(disruption) == disruption.isActive # "false"

\* Lines 265-273: the active disruptions of one station answer, isActive=True.
IsActive(disruption) == disruption.isActive = "true"
ActiveDisruptions(disruption_data) ==
    LET act == SelectSeq(disruption_data.disruptions, IsActive)
    IN  [k \in 1..Len(act) |-> [id |-> act[k].id, isActive |-> TRUE]]

RouteResponse(route, is_reversed, trips, disr) ==
    [routeKey |-> route_key(route, is_reversed), trips |-> trips, disruptions |-> disr]

\* Slip: the route's response is put in front of the list.
FinishRoute_Prepends(trips, disr) ==
    LET prepended == <<RouteResponse(request.routes[i], request.is_reversed, trips, disr)>>
                        \o route_responses
    IN  /\ route_responses' = prepended
        /\ IF i < Len(request.routes)
           THEN /\ i' = i + 1
                /\ pc' = "trips"
                /\ result' = result
           ELSE /\ i' = i
                /\ pc' = "done"
                /\ result' = Return(prepended)

\* Lines 277-283: append the route's response, then the next route or return.
FinishRoute(trips, disr) ==
    LET appended == Append(route_responses,
                           RouteResponse(request.routes[i], request.is_reversed, trips, disr))
    IN  /\ route_responses' = appended
        /\ IF i < Len(request.routes)
           THEN /\ i' = i + 1
                /\ pc' = "trips"
                /\ result' = result
           ELSE /\ i' = i
                /\ pc' = "done"
                /\ result' = Return(appended)

\* After one station's lookup: the next station, or the route is finished.
NextStation(disr) ==
    /\ disruptions' = disr
    /\ IF sc < Len(station_codes)
       THEN /\ sc' = sc + 1
            /\ UNCHANGED <<pc, i, result, route_responses>>
       ELSE /\ sc' = sc
            /\ FinishRoute(transformed_trips, disr)

\* The handler is called with a request body.
RailRequest(Requests) ==
    /\ pc = "idle"
    /\ \E req \in Requests :
        /\ request' = req
        /\ route_responses' = <<>>
        /\ i' = 1
        /\ IF req.routes = <<>>
           THEN pc' = "done" /\ result' = Return(<<>>)
           ELSE pc' = "trips" /\ result' = result
    /\ UNCHANGED <<calls, transformed_trips, disruptions, station_codes, sc>>
    /\ UNCHANGED carVars

TripsArgs ==
    <<actual_from_station(request.routes[i], request.is_reversed),
      actual_to_station(request.routes[i], request.is_reversed)>>

\* Slip: a failed trip search is swallowed per route and the batch goes on.
TripsCallFails_SkipsRoute(Failures) ==
    /\ pc = "trips"
    /\ \E resp \in Failures :
        calls' = Append(calls, Call("trips", i, TripsArgs, resp))
    /\ IF i < Len(request.routes)
       THEN /\ i' = i + 1
            /\ pc' = "trips"
            /\ result' = result
       ELSE /\ i' = i
            /\ pc' = "done"
            /\ result' = Return(route_responses)
    /\ UNCHANGED request
    /\ UNCHANGED railVars
    /\ UNCHANGED carVars

\* Lines 218-219 raise (transport error, or raise_for_status on an error status):
\* the handler's except clause turns it into HTTPException(500).
TripsCallFails(Failures) ==
    /\ pc = "trips"
    /\ \E resp \in Failures :
        /\ calls' = Append(calls, Call("trips", i, TripsArgs, resp))
        /\ result' = HTTPException(500, "Error fetching train routes", resp.error)
    /\ pc' = "done"
    /\ UNCHANGED <<request, i>>
    /\ UNCHANGED railVars
    /\ UNCHANGED carVars

\* Lines 218-257: the trip search answers; the trips are transformed and the
\* station codes to look up are collected.
TripsCallReturns(Payloads) ==
    /\ pc = "trips"
    /\ \E trips_data \in Payloads :
        LET trips == TransformTrips(trips_data, request.max_journeys)
            codes == StationCodes(request.routes[i], request.is_reversed)
        IN  /\ calls' = Append(calls, Call("trips", i, TripsArgs, HttpOk(trips_data)))
            /\ transformed_trips' = trips
            /\ disruptions' = <<>>
            /\ station_codes' = codes
            /\ sc' = 1
            /\ IF codes = <<>>
               THEN FinishRoute(trips, <<>>)
               ELSE /\ pc' = "disruptions"
                    /\ UNCHANGED <<i, result, route_responses>>
    /\ UNCHANGED request
    /\ UNCHANGED carVars

\* Slip: no inner try; the exception reaches the handler's except clause.
DisruptionCallRaises_Propagates ==
    /\ pc = "disruptions"
    /\ calls' = Append(calls, Call("disruptions", i, <<station_codes[sc]>>, TransportError))
    /\ result' = HTTPException(500, "Error fetching train routes", TransportError.error)
    /\ pc' = "done"
    /\ UNCHANGED <<request, i>>
    /\ UNCHANGED railVars
    /\ UNCHANGED carVars

\* Lines 262, 274-275: requests.get raises; the inner except clause continues
\* with the next station code.
DisruptionCallRaises ==
    /\ pc = "disruptions"
    /\ calls' = Append(calls, Call("disruptions", i, <<station_codes[sc]>>, TransportError))
    /\ NextStation(disruptions)
    /\ UNCHANGED <<request, transformed_trips, station_codes>>
    /\ UNCHANGED carVars

\* Line 263: the response is not ok; nothing is read from it.
DisruptionCallNotOk(Statuses) ==
    /\ pc = "disruptions"
    /\ \E status \in Statuses :
        /\ ~Ok(HttpError(status))
        /\ calls' = Append(calls, Call("disruptions", i, <<station_codes[sc]>>, HttpError(status)))
    /\ NextStation(disruptions)
    /\ UNCHANGED <<request, transformed_trips, station_codes>>
    /\ UNCHANGED carVars

\* Lines 263-273: the response is ok; its active disruptions are appended.
DisruptionCallReturns(Payloads) ==
    /\ pc = "disruptions"
    /\ \E disruption_data \in Payloads :
        /\ calls' = Append(calls, Call("disruptions", i, <<station_codes[sc]>>,
                                       HttpOk(disruption_data)))
        /\ NextStation(disruptions \o ActiveDisruptions(disruption_data))
    /\ UNCHANGED <<request, transformed_trips, station_codes>>
    /\ UNCHANGED carVars

(***************************************************************************)
(* get_car_routes                                                          *)
(***************************************************************************)
\* Lines 295-304: the routes with origin and destination swapped when reversed.
CurrentRoute(route, is_reversed) ==
    [id |-> route.id,
     name |-> route.name,
     origin |-> IF is_reversed THEN route.destination ELSE route.origin,
     destination |-> IF is_reversed THEN route.origin ELSE route.destination,
     originName |-> IF is_reversed THEN route.destinationName ELSE route.originName,
     destinationName |-> IF is_reversed THEN route.originName ELSE route.destinationName]

Upper == {"A", "B", "C", "D", "E", "F", "G", "H", "I", "J", "K", "L", "M",
          "N", "O", "P", "Q", "R", "S", "T", "U", "V", "W", "X", "Y", "Z"}
Lower == {"a", "b", "c", "d", "e", "f", "g", "h", "i", "j", "k", "l", "m",
          "n", "o", "p", "q", "r", "s", "t", "u", "v", "w", "x", "y", "z"}
Digit == {"0", "1", "2", "3", "4", "5", "6", "7", "8", "9"}
\* \w of the re module.
WordChar == Upper \cup Lower \cup Digit \cup {"_"}

\* \b at the gap before position p of s (p in 1..Len(s)+1): exactly one side is a word character.
WordBoundary(s, p) ==
    LET before == p > 1 /\ s[p - 1] \in WordChar
        after == p <= Len(s) /\ s[p] \in WordChar
    IN  before # after

\* The last position of the digits that start at position q (q - 1 when there is none).
RECURSIVE DigitRunEnd(_, _)
DigitRunEnd(s, q) ==
    IF q <= Len(s) /\ s[q] \in Digit THEN DigitRunEnd(s, q + 1) ELSE q - 1

\* Slip: the pattern without its two \b.
MatchAt_NoBoundary(s, p) ==
    IF s[p] \in Upper
    THEN LET q == DigitRunEnd(s, p + 1)
         IN  IF q > p THEN q ELSE 0
    ELSE 0

\* The end of a match of \b[A-Z]\d+\b that starts at p, 0 when there is none.
\* \d+ is greedy; giving digits back never helps, as no \b lies between two digits.
MatchAt(s, p) ==
    IF WordBoundary(s, p) /\ s[p] \in Upper
    THEN LET q == DigitRunEnd(s, p + 1)
         IN  IF q > p /\ WordBoundary(s, q + 1) THEN q ELSE 0
    ELSE 0

\* re.search(r"\b[A-Z]\d+\b", s) from position p on: the leftmost match, <<>> for None.
RECURSIVE SearchFrom(_, _)
SearchFrom(s, p) ==
    IF p > Len(s) THEN <<>>
    ELSE IF MatchAt(s, p) > 0 THEN SubSeq(s, p, MatchAt(s, p))
         ELSE SearchFrom(s, p + 1)

RegexSearch(instructions) == SearchFrom(instructions, 1)

\* Lines 356-364: the loop over the steps from step k on.
RECURSIVE ScanSteps(_, _, _)
ScanSteps(steps, k, road_names) ==
    IF k > Len(steps) THEN road_names
    ELSE LET match == RegexSearch(steps[k])
         IN  IF match # <<>>
             THEN IF Len(road_names) + 1 >= MaxRoadNames
                  THEN Append(road_names, match)
                  ELSE ScanSteps(steps, k + 1, Append(road_names, match))
             ELSE ScanSteps(steps, k + 1, road_names)

\* " → ".join(names)
RECURSIVE Join(_)
Join(names) ==
    IF names = <<>> THEN <<>>
    ELSE IF Len(names) = 1 THEN names[1]
         ELSE names[1] \o <<" → ">> \o Join(Tail(names))

\* Line 366.
RouteDescription(steps) ==
    LET road_names == ScanSteps(steps, 1, <<>>)
    IN  IF road_names # <<>> THEN Join(road_names) ELSE <<"Local roads">>

\* Line 370: the traffic value, or the plain duration value when it is absent.
DurationInTrafficValue(elem) ==
    IF elem.has_duration_in_traffic THEN elem.duration_in_traffic.value
                                    ELSE elem.duration.value

\* Line 333.
DurationInTrafficText(elem) ==
    IF elem.has_duration_in_traffic THEN elem.duration_in_traffic.text
                                    ELSE elem.duration.text

\* ratio > tenths / 10 for ratio = num / den, den > 0.  The double quotient of
\* two integers is correctly rounded and the literals 1.4 and 1.2 are the
\* doubles nearest to 7/5 and 6/5, so for second counts below 2^50 the
\* floating-point comparison decides as the exact one does.
RatioAbove(num, den, tenths) == 10 * num > tenths * den

\* Slip: >= for >.
TrafficLevel_NonStrict(duration_in_traffic_value, duration_value) ==
    IF 10 * duration_in_traffic_value >= 14 * duration_value THEN "Heavy"
    ELSE IF 10 * duration_in_traffic_value >= 12 * duration_value THEN "Moderate"
    ELSE "Light"

\* Lines 373-378.
TrafficLevel(duration_in_traffic_value, duration_value) ==
    IF RatioAbove(duration_in_traffic_value, duration_value, 14) THEN "Heavy"
    ELSE IF RatioAbove(duration_in_traffic_value, duration_value, 12) THEN "Moderate"
    ELSE "Light"

\* re.sub(r'[^\d.]', '', distance)
StripNonNumeric(text) == SelectSeq(text, LAMBDA c : c \in Digit \cup {"."})

\* float() accepts a string of digits and dots when it has a digit and at most one dot.
FloatParses(s) ==
    /\ \E k \in 1..Len(s) : s[k] \in Digit
    /\ Cardinality({k \in 1..Len(s) : s[k] = "."}) <= 1

DigitValue ==
    ("0" :> 0) @@ ("1" :> 1) @@ ("2" :> 2) @@ ("3" :> 3) @@ ("4" :> 4) @@
    ("5" :> 5) @@ ("6" :> 6) @@ ("7" :> 7) @@ ("8" :> 8) @@ ("9" :> 9)

\* The digits of s read as one integer, the dot left out.
RECURSIVE Mantissa(_)
Mantissa(s) ==
    IF s = <<>> THEN 0
    ELSE IF s[Len(s)] = "." THEN Mantissa(SubSeq(s, 1, Len(s) - 1))
         ELSE 10 * Mantissa(SubSeq(s, 1, Len(s) - 1)) + DigitValue[s[Len(s)]]

\* The number of digits after the dot.
FractionDigits(s) ==
    IF \E k \in 1..Len(s) : s[k] = "."
    THEN Len(s) - (CHOOSE k \in 1..Len(s) : s[k] = ".")
    ELSE 0

RECURSIVE Pow10(_)
Pow10(n) == IF n = 0 THEN 1 ELSE 10 * Pow10(n - 1)

\* Lines 381-383: (distance_value / 100) * fuel_price_per_100km in cents, rounded
\* to the nearest cent as the format :.2f does.
FuelCents(s) ==
    LET scale == Pow10(FractionDigits(s))
    IN  (2 * Mantissa(s) * FuelPricePer100Km + scale) \div (2 * scale)

\* f"€{...:.2f}"
FuelCost(cents) ==
    <<"€", cents \div 100, ".", (cents % 100) \div 10, cents % 10>>

\* Lines 385-395.
CarTripResponse(route, elem, steps) ==
    [id |-> route.id,
     from_location |-> route.originName,
     to |-> route.destinationName,
     distance |-> elem.distance.text,
     duration |-> elem.duration.text,
     durationInTraffic |-> DurationInTrafficText(elem),
     traffic |-> TrafficLevel(DurationInTrafficValue(elem), elem.duration.value),
     route |-> RouteDescription(steps),
     fuelCost |-> FuelCost(FuelCents(StripNonNumeric(elem.distance.text))),
     status |-> "NORMAL"]

\* The handler is called with a request body.
CarRequest(Requests) ==
    /\ pc = "idle"
    /\ \E req \in Requests :
        /\ request' = req
        /\ current_routes' =
              [k \in 1..Len(req.routes) |-> CurrentRoute(req.routes[k], req.is_reversed)]
        /\ IF req.routes = <<>>
           THEN pc' = "done" /\ result' = Return(<<>>)
           ELSE pc' = "matrix" /\ result' = result
    /\ trip_responses' = <<>>
    /\ i' = 1
    /\ UNCHANGED <<calls, element>>
    /\ UNCHANGED railVars

CarArgs == <<current_routes[i].origin, current_routes[i].destination>>

\* Lines 320-321 or 344-345 raise (transport error, or raise_for_status on an
\* error status): the handler's except clause turns it into HTTPException(500).
CarCallFails(at, api, Failures) ==
    /\ pc = at
    /\ \E resp \in Failures :
        /\ calls' = Append(calls, Call(api, i, CarArgs, resp))
        /\ result' = HTTPException(500, "Error fetching car routes", resp.error)
    /\ pc' = "done"
    /\ UNCHANGED <<request, i>>
    /\ UNCHANGED carVars
    /\ UNCHANGED railVars

\* Lines 324-328 or 348-352: the payload's status is not "OK"; the handler
\* raises HTTPException itself, which its except clause does not catch.
CarCallNotOK(at, api, operation, Statuses) ==
    /\ pc = at
    /\ \E status \in Statuses :
        /\ calls' = Append(calls, Call(api, i, CarArgs, HttpOk([status |-> status])))
        /\ result' = HTTPException(500, operation, status)
    /\ pc' = "done"
    /\ UNCHANGED <<request, i>>
    /\ UNCHANGED carVars
    /\ UNCHANGED railVars

DistanceMatrixCallFails(Failures) == CarCallFails("matrix", "distancematrix", Failures)

\* Slip: a status other than "OK" ends the loop and what was collected is returned.
DistanceMatrixNotOK_ReturnsPartial(Statuses) ==
    /\ pc = "matrix"
    /\ \E status \in Statuses :
        calls' = Append(calls, Call("distancematrix", i, CarArgs, HttpOk([status |-> status])))
    /\ result' = Return(trip_responses)
    /\ pc' = "done"
    /\ UNCHANGED <<request, i>>
    /\ UNCHANGED carVars
    /\ UNCHANGED railVars

DistanceMatrixNotOK(Statuses) ==
    CarCallNotOK("matrix", "distancematrix", "Distance Matrix API error", Statuses)

\* Lines 320-333: the distance matrix answers "OK"; its first element is kept.
DistanceMatrixReturns(Elements) ==
    /\ pc = "matrix"
    /\ \E elem \in Elements :
        /\ calls' = Append(calls, Call("distancematrix", i, CarArgs,
                                       HttpOk([status |-> "OK", element |-> elem])))
        /\ element' = elem
    /\ pc' = "directions"
    /\ UNCHANGED <<request, i, result, current_routes, trip_responses>>
    /\ UNCHANGED railVars

DirectionsCallFails(Failures) == CarCallFails("directions", "directions", Failures)

DirectionsNotOK(Statuses) ==
    CarCallNotOK("directions", "directions", "Directions API error", Statuses)

\* Lines 344-397: the directions answer "OK"; the road names, the traffic level
\* and the fuel cost are computed and the route's response is appended.  The
\* division of line 371 and the float() of line 381 raise exceptions that no
\* except clause of the handler catches.
DirectionsReturns(StepLists) ==
    /\ pc = "directions"
    /\ \E steps \in StepLists :
        /\ calls' = Append(calls, Call("directions", i, CarArgs,
                                       HttpOk([status |-> "OK", steps |-> steps])))
        /\ IF element.duration.value = 0
           THEN /\ result' = Unhandled("ZeroDivisionError")
                /\ pc' = "done"
                /\ UNCHANGED <<i, trip_responses>>
           ELSE IF ~FloatParses(StripNonNumeric(element.distance.text))
           THEN /\ result' = Unhandled("ValueError")
                /\ pc' = "done"
                /\ UNCHANGED <<i, trip_responses>>
           ELSE LET appended == Append(trip_responses,
                                       CarTripResponse(current_routes[i], element, steps))
                IN  /\ trip_responses' = appended
                    /\ IF i < Len(current_routes)
                       THEN /\ i' = i + 1
                            /\ pc' = "matrix"
                            /\ result' = result
                       ELSE /\ i' = i
                            /\ pc' = "done"
                            /\ result' = Return(appended)
    /\ UNCHANGED <<request, current_routes, element>>
    /\ UNCHANGED railVars

Init ==
    /\ request = [routes |-> <<>>, is_reversed |-> FALSE]
    /\ pc = "idle"
    /\ i = 1
    /\ calls = <<>>
    /\ result = NoResult
    /\ route_responses = <<>>
    /\ transformed_trips = <<>>
    /\ disruptions = <<>>
    /\ station_codes = <<>>
    /\ sc = 1
    /\ current_routes = <<>>
    /\ trip_responses = <<>>
    /\ element = NoData

(***************************************************************************)
(* Inputs of the rail handler.                                             *)
(***************************************************************************)
Route(from, to, fromCode, toCode) ==
    [fromStation |-> from, toStation |-> to,
     fromStationCode |-> fromCode, toStationCode |-> toCode]

\* Routes with both codes, one code, an empty code and no code.
Routes ==
    { Route("A", "B", "a", "b"),
      Route("B", "C", None, "c"),
      Route("A", "C", "a", ""),
      Route("C", "A", None, None) }

RouteRequest(routes, max_journeys, is_reversed) ==
    [routes |-> routes, max_journeys |-> max_journeys, is_reversed |-> is_reversed]

HttpErrorStatuses == {503}
TripFailures == {TransportError} \cup {HttpError(s) : s \in HttpErrorStatuses}

UpstreamTrip(minutes) == [plannedDurationInMinutes |-> minutes]
TripsData(trips) == [has_trips |-> TRUE, trips |-> trips]
NoTripsKey == [has_trips |-> FALSE, trips |-> <<>>]

UpstreamDisruption(id, isActive) == [id |-> id, isActive |-> isActive]
DisruptionData(list) == [disruptions |-> list]

\* Batches of routes, one trip per answer at most, one disruption per station at most.
RailRequests ==
    {RouteRequest(rs, DefaultMaxJourneys, rev) :
        rs \in SeqsUpTo(Routes, MaxRoutes), rev \in BOOLEAN}
RailTrips == {NoTripsKey, TripsData(<<UpstreamTrip(30)>>)}
RailDisruptions == {DisruptionData(<<>>), DisruptionData(<<UpstreamDisruption("d1", "true")>>)}

NextRail ==
    \/ RailRequest(RailRequests)
    \/ TripsCallFails(TripFailures)
    \/ TripsCallReturns(RailTrips)
    \/ DisruptionCallRaises
    \/ DisruptionCallNotOk(HttpErrorStatuses)
    \/ DisruptionCallReturns(RailDisruptions)

SpecRail == Init /\ [][NextRail]_vars


\* One route, every short list of disruptions per station.
UpstreamDisruptions ==
    { UpstreamDisruption("d1", "true"), UpstreamDisruption("d1", "false"),
      UpstreamDisruption("d2", "true"), UpstreamDisruption("d2", "null") }
DisruptionRequests ==
    {RouteRequest(<<r>>, DefaultMaxJourneys, rev) : r \in Routes, rev \in BOOLEAN}
DisruptionPayloads ==
    {DisruptionData(list) : list \in SeqsUpTo(UpstreamDisruptions, MaxDisruptions)}

NextDisruptions ==
    \/ RailRequest(DisruptionRequests)
    \/ TripsCallFails(TripFailures)
    \/ TripsCallReturns(RailTrips)
    \/ DisruptionCallRaises
    \/ DisruptionCallNotOk(HttpErrorStatuses)
    \/ DisruptionCallReturns(DisruptionPayloads)

SpecDisruptions == Init /\ [][NextDisruptions]_vars

\* Every max_journeys from -1 up, and the default; every short list of trips.
TripMinutes == {30, 45}
TripRequests ==
    {RouteRequest(rs, m, rev) :
        rs \in SeqsUpTo({Route("B", "C", None, "c")}, MaxRoutes),
        m \in (-1..MaxJourneys) \cup {DefaultMaxJourneys},
        rev \in BOOLEAN}
TripPayloads ==
    {NoTripsKey} \cup
    {TripsData(list) : list \in SeqsUpTo({UpstreamTrip(m) : m \in TripMinutes}, MaxTrips)}

NextTrips ==
    \/ RailRequest(TripRequests)
    \/ TripsCallFails(TripFailures)
    \/ TripsCallReturns(TripPayloads)
    \/ DisruptionCallRaises
    \/ DisruptionCallNotOk(HttpErrorStatuses)
    \/ DisruptionCallReturns({DisruptionData(<<>>)})

SpecTrips == Init /\ [][NextTrips]_vars

(***************************************************************************)
(* Inputs of the car handler.                                              *)
(***************************************************************************)
CarRoute(id, origin, destination, originName, destinationName, name) ==
    [id |-> id, origin |-> origin, destination |-> destination,
     originName |-> originName, destinationName |-> destinationName, name |-> name]

CarRoutes ==
    { CarRoute(1, "Dam 1", "Coolsingel 40", "Home", "Work", "commute"),
      CarRoute(2, "Coolsingel 40", "Markt 87", "Work", "Gym", "sport") }

CarRouteRequest(routes, is_reversed) == [routes |-> routes, is_reversed |-> is_reversed]

\* Distance texts as the distance matrix writes them.
DistanceTexts ==
    {
      <<"1", " ", "m">>,   \* 1 m
      <<"4", "2", ".", "5", " ", "k", "m">>,   \* 42.5 km
      <<"1", ",", "2", "3", "4", " ", "k", "m">>,   \* 1,234 km
      <<"0", ".", "3", " ", "m", "i">>    \* 0.3 mi
    }

\* Instruction texts of a step.
Instructions ==
    {
      <<"o", "n", "t", "o", " ", "A", "1", "0">>,   \* onto A10
      <<"o", "n", " ", "<", "b", ">", "N", "1", "<", "/", "b", ">">>,   \* on <b>N1</b>
      <<"E", "1", "9", "/", "A", "1">>,   \* E19/A1
      <<"A", "2">>,   \* A2
      <<"B", "A", "1", "2">>,   \* BA12
      <<"e", "x", "i", "t", " ", "A", "4", "a">>,   \* exit A4a
      <<"T", "u", "r", "n", " ", "l", "e", "f", "t">>,   \* Turn left
      <<>>    \* (empty)
    }

\* rows[0].elements[0]: the texts of the durations are written from their values.
Element(distance_text, duration_value, has_traffic, traffic_value) ==
    [distance |-> [text |-> distance_text],
     duration |-> [text |-> <<duration_value, " s">>, value |-> duration_value],
     has_duration_in_traffic |-> has_traffic,
     duration_in_traffic |-> [text |-> <<traffic_value, " s">>, value |-> traffic_value]]

ApiStatuses == {"REQUEST_DENIED", "OVER_QUERY_LIMIT"}
CarFailures == {TransportError} \cup {HttpError(st) : st \in HttpErrorStatuses}

DistanceKm == <<"4", "2", ".", "5", " ", "k", "m">>
DistanceM == <<"1", " ", "m">>

\* Batches of routes; a standing route (0 s), free flow and heavy traffic.
CarRequests ==
    {CarRouteRequest(rs, rev) : rs \in SeqsUpTo(CarRoutes, MaxRoutes), rev \in BOOLEAN}
CarElements ==
    {Element(DistanceM, 0, TRUE, 0), Element(DistanceKm, 10, TRUE, 15)} \cup
    {Element(text, 10, FALSE, 0) : text \in DistanceTexts}
CarSteps == { <<>>, << <<"o", "n", " ", "A", "1", "0">> >> }

NextCar ==
    \/ CarRequest(CarRequests)
    \/ DistanceMatrixCallFails(CarFailures)
    \/ DistanceMatrixNotOK(ApiStatuses)
    \/ DistanceMatrixReturns(CarElements)
    \/ DirectionsCallFails(CarFailures)
    \/ DirectionsNotOK(ApiStatuses)
    \/ DirectionsReturns(CarSteps)

SpecCar == Init /\ [][NextCar]_vars

\* One route; every pair of second counts up to MaxSeconds, with and without
\* a traffic duration.
SingleCarRequests ==
    {CarRouteRequest(<<r>>, rev) : r \in CarRoutes, rev \in BOOLEAN}
TrafficElements ==
    {Element(DistanceKm, d, has, t) :
        d \in 0..MaxSeconds, has \in BOOLEAN, t \in 0..MaxSeconds}

NextTraffic ==
    \/ CarRequest(SingleCarRequests)
    \/ DistanceMatrixCallFails(CarFailures)
    \/ DistanceMatrixNotOK(ApiStatuses)
    \/ DistanceMatrixReturns(TrafficElements)
    \/ DirectionsCallFails(CarFailures)
    \/ DirectionsNotOK(ApiStatuses)
    \/ DirectionsReturns(CarSteps)

SpecTraffic == Init /\ [][NextTraffic]_vars

\* One route; every list of at most MaxSteps instruction texts.
RoadSteps == SeqsUpTo(Instructions, MaxSteps)

NextRoads ==
    \/ CarRequest({CarRouteRequest(<<CarRoute(1, "Dam 1", "Coolsingel 40", "Home", "Work", "commute")>>, FALSE)})
    \/ DistanceMatrixCallFails(CarFailures)
    \/ DistanceMatrixNotOK(ApiStatuses)
    \/ DistanceMatrixReturns({Element(DistanceKm, 10, FALSE, 0)})
    \/ DirectionsCallFails(CarFailures)
    \/ DirectionsNotOK(ApiStatuses)
    \/ DirectionsReturns(RoadSteps)

SpecRoads == Init /\ [][NextRoads]_vars

(***************************************************************************)
(* Properties of get_train_routes.                                         *)
(***************************************************************************)
Done == pc = "done"
Failed(c) == c.status < 200 \/ c.status >= 400
TripSearchFailed == \E k \in 1..Len(calls) : calls[k].api = "trips" /\ Failed(calls[k])

\* The answer of the trip search of route r (r has been searched successfully).
TripsAnswer(r) ==
    calls[CHOOSE k \in 1..Len(calls) : calls[k].api = "trips" /\ calls[k].route = r].data

\* The station codes looked up for route r so far, in call order.
RECURSIVE LookedUp(_, _)
LookedUp(r, n) ==
    IF n = 0 THEN <<>>
    ELSE IF calls[n].api = "disruptions" /\ calls[n].route = r
         THEN LookedUp(r, n - 1) \o calls[n].args
         ELSE LookedUp(r, n - 1)

RECURSIVE KeepActive(_)
KeepActive(list) ==
    IF list = <<>> THEN <<>>
    ELSE (IF Head(list).isActive = "true"
          THEN <<[id |-> Head(list).id, isActive |-> TRUE]>>
          ELSE <<>>) \o KeepActive(Tail(list))

\* The active disruptions the successful lookups of route r reported, in call order.
RECURSIVE ReportedActive(_, _)
ReportedActive(r, n) ==
    IF n = 0 THEN <<>>
    ELSE IF calls[n].api = "disruptions" /\ calls[n].route = r /\ ~Failed(calls[n])
         THEN ReportedActive(r, n - 1) \o KeepActive(calls[n].data.disruptions)
         ELSE ReportedActive(r, n - 1)

FailedLookups(r) ==
    {k \in 1..Len(calls) :
        calls[k].api = "disruptions" /\ calls[k].route = r /\ Failed(calls[k])}
OkLookups(r) ==
    {k \in 1..Len(calls) :
        calls[k].api = "disruptions" /\ calls[k].route = r /\ ~Failed(calls[k])}

\* C1: a failing disruption lookup (transport error or error status) aborts
\* neither the route nor the batch: only a failed trip search makes the request
\* fail, and every finished route carries the trips of its trip search and
\* exactly the active disruptions its successful lookups reported (none when
\* every lookup failed or there was no station code).
C1_DisruptionFailureTolerated ==
    /\ result.exc = "HTTPException" =>
          calls[Len(calls)].api = "trips" /\ Failed(calls[Len(calls)])
    /\ (Done /\ ~TripSearchFailed) =>
          result.exc = None /\ result.status_code = 200 /\ result.body = route_responses
    /\ \A r \in 1..Len(route_responses) :
          LET up == TripsAnswer(r).trips
              rr == route_responses[r]
          IN  /\ Len(rr.trips) <= Len(up)
              /\ Len(up) <= request.max_journeys => Len(rr.trips) = Len(up)
              /\ \A k \in 1..Len(rr.trips) :
                    rr.trips[k].plannedDurationInMinutes = up[k].plannedDurationInMinutes
              /\ rr.disruptions = ReportedActive(r, Len(calls))
              /\ OkLookups(r) = {} => rr.disruptions = <<>>

\* A finished request whose route 1 lost one lookup and kept the other's disruption.
C1_Witness ==
    /\ Done /\ result.exc = None /\ Len(result.body) >= 1
    /\ FailedLookups(1) # {} /\ OkLookups(1) # {}
    /\ result.body[1].disruptions = <<[id |-> "d1", isActive |-> TRUE]>>
    /\ result.body[1].trips # <<>>

\* C2: once a trip search has failed, the request has ended with HTTP 500 and a
\* detail, it returns no RouteResponse, and the failed call is the last call
\* issued (nothing is asked for the routes after it).
C2_TripSearchFailureAborts ==
    \A k \in 1..Len(calls) :
        (calls[k].api = "trips" /\ Failed(calls[k])) =>
            /\ Done
            /\ result.exc = "HTTPException"
            /\ result.status_code = 500
            /\ result.detail # <<>>
            /\ result.detail[1] = "Error fetching train routes"
            /\ result.body = <<>>
            /\ k = Len(calls)

\* The trip search of the second route fails after the first route was finished.
C2_Witness ==
    /\ Done /\ result.status_code = 500
    /\ Len(request.routes) >= 2
    /\ Len(route_responses) = 1
    /\ calls[Len(calls)].api = "trips" /\ calls[Len(calls)].route = 2
    /\ Failed(calls[Len(calls)])

\* C5: when every trip search succeeded, the request returns one RouteResponse
\* per input route, the k-th built from the k-th route's effective names,
\* whatever the disruption lookups did.
C5_OneResponsePerRoute ==
    (Done /\ ~TripSearchFailed) =>
        /\ result.exc = None
        /\ Len(result.body) = Len(request.routes)
        /\ \A k \in 1..Len(request.routes) :
              result.body[k].routeKey =
                 IF request.is_reversed
                 THEN <<request.routes[k].toStation, "-", request.routes[k].fromStation>>
                 ELSE <<request.routes[k].fromStation, "-", request.routes[k].toStation>>

\* Two different routes answered in input order although a lookup failed.
C5_Witness ==
    /\ Done /\ result.exc = None /\ Len(request.routes) = 2
    /\ request.routes[1] # request.routes[2]
    /\ result.body[1].routeKey # result.body[2].routeKey
    /\ FailedLookups(1) # {}
    /\ result.body[2].trips = <<>>

CodesInOrder(route, reversed) ==
    SelectSeq(IF reversed THEN <<route.toStationCode, route.fromStationCode>>
                          ELSE <<route.fromStationCode, route.toStationCode>>,
              LAMBDA code : code # None /\ code # "")

\* C7: with is_reversed the key of every route is "to-from", its trip search
\* goes from toStation to fromStation and its lookups use the codes in the
\* order (toStationCode, fromStationCode); without it nothing is swapped.
C7_ReversalSwaps ==
    /\ \A k \in 1..Len(calls) :
          calls[k].api = "trips" =>
             LET route == request.routes[calls[k].route]
             IN  calls[k].args = IF request.is_reversed
                                 THEN <<route.toStation, route.fromStation>>
                                 ELSE <<route.fromStation, route.toStation>>
    /\ \A r \in 1..Len(route_responses) :
          LET route == request.routes[r]
          IN  /\ route_responses[r].routeKey =
                    IF request.is_reversed
                    THEN <<route.toStation, "-", route.fromStation>>
                    ELSE <<route.fromStation, "-", route.toStation>>
              /\ LookedUp(r, Len(calls)) = CodesInOrder(route, request.is_reversed)

\* A reversed batch whose route A-B (codes a, b) was searched B to A and looked up b, a.
C7_Witness ==
    /\ Done /\ result.exc = None /\ request.is_reversed
    /\ Len(request.routes) = 2
    /\ request.routes[2] = Route("A", "B", "a", "b")
    /\ result.body[2].routeKey = <<"B", "-", "A">>
    /\ LookedUp(2, Len(calls)) = <<"b", "a">>
    /\ \E k \in 1..Len(calls) :
          calls[k].api = "trips" /\ calls[k].route = 2 /\ calls[k].args = <<"B", "A">>

Count(seq, Test(_)) == Cardinality({k \in 1..Len(seq) : Test(seq[k])})

\* How often the successful lookups of route r, among the first n calls,
\* reported the disruption id with isActive true.
RECURSIVE TimesReported(_, _, _)
TimesReported(r, id, n) ==
    IF n = 0 THEN 0
    ELSE TimesReported(r, id, n - 1) +
         (IF n \in OkLookups(r)
          THEN Count(calls[n].data.disruptions,
                     LAMBDA d : d.id = id /\ d.isActive = "true")
          ELSE 0)

\* C8: every disruption of a RouteResponse has isActive = TRUE and was
\* reported active by a successful lookup of the route; a disruption reported
\* with isActive false or absent adds nothing; and each id appears as many
\* times as the successful lookups of the route reported it active.
C8_OnlyActiveDisruptions ==
    \A r \in 1..Len(route_responses) :
        LET out == route_responses[r].disruptions
        IN  /\ \A n \in 1..Len(out) : out[n].isActive = TRUE
            /\ \A id \in {"d1", "d2"} :
                  Count(out, LAMBDA d : d.id = id) = TimesReported(r, id, Len(calls))
            /\ \A n \in 1..Len(out) : out[n].id \in {"d1", "d2"}

\* Both stations report d1 active, and d2 inactive or without the flag: d1 twice, d2 never.
C8_Witness ==
    /\ Done /\ result.exc = None
    /\ Cardinality(OkLookups(1)) = 2
    /\ \A k \in OkLookups(1) :
          /\ \E n \in 1..Len(calls[k].data.disruptions) :
                calls[k].data.disruptions[n] = UpstreamDisruption("d1", "true")
          /\ \E n \in 1..Len(calls[k].data.disruptions) :
                calls[k].data.disruptions[n].id = "d2"
    /\ \E k \in OkLookups(1) : \E n \in 1..Len(calls[k].data.disruptions) :
          calls[k].data.disruptions[n] = UpstreamDisruption("d2", "null")
    /\ result.body[1].disruptions =
          <<[id |-> "d1", isActive |-> TRUE], [id |-> "d1", isActive |-> TRUE]>>

\* C4: every finished route has at most max_journeys trips (none when
\* max_journeys is below 1), fewer than max_journeys only when upstream returned
\* fewer; they are the leading upstream trips in upstream order, and
\* trips[k].idx is k (0-based).
C4_TripsCapped ==
    \A r \in 1..Len(route_responses) :
        LET up == TripsAnswer(r).trips
            trips == route_responses[r].trips
        IN  /\ Len(trips) <= Max(request.max_journeys, 0)
            /\ Len(trips) = Len(up) \/ Len(trips) = Max(request.max_journeys, 0)
            /\ \A k \in 1..Len(trips) :
                  /\ trips[k].idx = k - 1
                  /\ trips[k].plannedDurationInMinutes = up[k].plannedDurationInMinutes

(***************************************************************************)
(* Properties of get_car_routes.                                           *)
(***************************************************************************)
CarApis == {"distancematrix", "directions"}
NotOK(c) == Failed(c) \/ c.data.status # "OK"
CarCallBad == \E k \in 1..Len(calls) : calls[k].api \in CarApis /\ NotOK(calls[k])

\* C3: once a distance-matrix or directions call has failed or answered with a
\* status other than "OK", the request has ended with HTTP 500 and no
\* CarTripResponse, whatever was collected before; a status other than "OK"
\* reaches the client as the HTTPException the handler raised for it, not
\* rewritten by the handler's except clause.
C3_CarFailureAbortsBatch ==
    \A k \in 1..Len(calls) :
        (calls[k].api \in CarApis /\ NotOK(calls[k])) =>
            /\ Done
            /\ k = Len(calls)
            /\ result.exc = "HTTPException"
            /\ result.status_code = 500
            /\ result.body = <<>>
            /\ ~Failed(calls[k]) =>
                  result.detail =
                     <<IF calls[k].api = "distancematrix"
                       THEN "Distance Matrix API error" ELSE "Directions API error",
                       ": ", calls[k].data.status>>
            /\ Failed(calls[k]) => result.detail[1] = "Error fetching car routes"

\* The distance matrix of the second route answers REQUEST_DENIED after the
\* first route's response was built.
C3_Witness ==
    /\ Done /\ result.status_code = 500 /\ result.body = <<>>
    /\ Len(trip_responses) = 1
    /\ calls[Len(calls)].api = "distancematrix" /\ calls[Len(calls)].route = 2
    /\ ~Failed(calls[Len(calls)]) /\ calls[Len(calls)].data.status = "REQUEST_DENIED"

\* C6: a batch whose calls all succeeded with "OK" ends with one
\* CarTripResponse per route, each with a traffic level and a fuel cost,
\* whatever the duration value (0 included) and the distance text.
C6_AlwaysComputed ==
    (Done /\ ~CarCallBad /\ \A k \in 1..Len(calls) : calls[k].api \in CarApis) =>
        /\ result.exc = None
        /\ Len(result.body) = Len(request.routes)
        /\ \A k \in 1..Len(result.body) :
              /\ result.body[k].traffic \in {"Heavy", "Moderate", "Light"}
              /\ result.body[k].fuelCost # <<>>

\* The element the distance matrix returned for route r.
MatrixElement(r) ==
    calls[CHOOSE k \in 1..Len(calls) :
            calls[k].api = "distancematrix" /\ calls[k].route = r].data.element

\* C9: with t the traffic value (the duration value d when absent) and d > 0,
\* the traffic level is Heavy when t/d > 1.4, Moderate when 1.2 < t/d <= 1.4
\* and Light when t/d <= 1.2; t/d = 7/5 is Moderate and t/d = 6/5 is Light.
C9_TrafficClassification ==
    \A r \in 1..Len(trip_responses) :
        LET el == MatrixElement(r)
            d == el.duration.value
            t == IF el.has_duration_in_traffic THEN el.duration_in_traffic.value ELSE d
            level == trip_responses[r].traffic
        IN  d > 0 =>
              /\ 5 * t > 7 * d => level = "Heavy"
              /\ (5 * t > 6 * d /\ 5 * t <= 7 * d) => level = "Moderate"
              /\ 5 * t <= 6 * d => level = "Light"
              /\ ~el.has_duration_in_traffic => level = "Light"

\* 7 seconds in traffic against 5 seconds: the ratio is exactly 1.4, Moderate.
C9_Witness ==
    /\ Done /\ result.exc = None /\ Len(result.body) = 1
    /\ MatrixElement(1).has_duration_in_traffic
    /\ MatrixElement(1).duration.value = 5
    /\ MatrixElement(1).duration_in_traffic.value = 7
    /\ result.body[1].traffic = "Moderate"

\* The steps the directions call returned for route r.
DirectionsSteps(r) ==
    calls[CHOOSE k \in 1..Len(calls) :
            calls[k].api = "directions" /\ calls[k].route = r].data.steps

\* s[p..q] is one uppercase letter followed by one or more digits.
IsRoadName(s, p, q) ==
    /\ 1 <= p /\ p < q /\ q <= Len(s)
    /\ s[p] \in Upper
    /\ \A k \in (p + 1)..q : s[k] \in Digit

\* s[p..q] is a word of its own: no letter, digit or underscore next to it.
IsWholeWord(s, p, q) ==
    /\ p = 1 \/ s[p - 1] \notin WordChar
    /\ q = Len(s) \/ s[q + 1] \notin WordChar

\* The first (leftmost, longest) substring of s that Accepts, <<>> when there is none.
FirstSubstring(s, Accepts(_, _, _)) ==
    LET spans == {pq \in (1..Len(s)) \X (1..Len(s)) : Accepts(s, pq[1], pq[2])}
    IN  IF spans = {} THEN <<>>
        ELSE LET first == CHOOSE pq \in spans :
                            \A other \in spans :
                               \/ pq[1] < other[1]
                               \/ pq[1] = other[1] /\ pq[2] >= other[2]
             IN  SubSeq(s, first[1], first[2])

\* The non-empty entries of seq, in order.
RECURSIVE NonEmpty(_)
NonEmpty(seq) ==
    IF seq = <<>> THEN <<>>
    ELSE (IF Head(seq) = <<>> THEN <<>> ELSE <<Head(seq)>>) \o NonEmpty(Tail(seq))

RECURSIVE Joined(_)
Joined(names) ==
    IF Len(names) = 0 THEN <<>>
    ELSE IF Len(names) = 1 THEN Head(names)
    ELSE Head(names) \o <<" → ">> \o Joined(Tail(names))

\* The summary of the per-step matches: the first three joined, or "Local roads".
Summary(matches) ==
    LET found == NonEmpty(matches)
    IN  IF found = <<>> THEN <<"Local roads">>
        ELSE Joined(SubSeq(found, 1, IF Len(found) < 3 THEN Len(found) ELSE 3))

\* C10 as stated: the match of a step is its first substring that is one
\* uppercase letter followed by one or more digits.
C10_AnySubstring ==
    \A r \in 1..Len(trip_responses) :
        LET steps == DirectionsSteps(r)
        IN  trip_responses[r].route =
               Summary([k \in 1..Len(steps) |-> FirstSubstring(steps[k], IsRoadName)])

IsRoadWord(s, p, q) == IsRoadName(s, p, q) /\ IsWholeWord(s, p, q)

\* C10: the match of a step is its first substring that is one uppercase
\* letter followed by one or more digits and is a word of its own; the summary
\* is the first three matches in step order joined with " → ", and "Local
\* roads" exactly when no step has a match.
C10_WholeWordRoadNames ==
    \A r \in 1..Len(trip_responses) :
        LET steps == DirectionsSteps(r)
            matches == [k \in 1..Len(steps) |-> FirstSubstring(steps[k], IsRoadWord)]
        IN  /\ trip_responses[r].route = Summary(matches)
            /\ trip_responses[r].route = <<"Local roads">> <=> NonEmpty(matches) = <<>>

\* Four steps name a road and one more holds A12 inside the word BA12: the
\* summary keeps the first three whole-word names.
C10_Witness ==
    /\ Done /\ result.exc = None /\ Len(result.body) = 1
    /\ LET steps == DirectionsSteps(1)
       IN  /\ Len(steps) = 4
           /\ steps[1] = <<"B", "A", "1", "2">>
           /\ steps[2] = <<"E", "1", "9", "/", "A", "1">>
           /\ steps[3] = <<"A", "2">>
           /\ steps[4] = <<"A", "2">>
    /\ result.body[1].route = <<"E", "1", "9", " → ", "A", "2", " → ", "A", "2">>

=============================================================================
